---- MODULE Spec2Model ----
(***************************************************************************)
(* Authentication and session lifecycle of afk-master: AuthService         *)
(* (register, login, loginWithGoogle, refresh, logout) over the users and  *)
(* refresh_tokens tables.  Every awaited database statement is one atomic  *)
(* step; the synchronous code that follows a statement's result runs with  *)
(* the next statement of the same call.  Concurrent requests are the       *)
(* request slots of Procs.  The process around them (HTTP server, pool,    *)
(* signal handlers, exit code) is the record server.                       *)
(***************************************************************************)
EXTENDS Integers, FiniteSets, Sequences, TLC

\* ------------------------------------------------------------ bounds
MaxTime == 3
TicksPerSec == 1
RefreshTtlSec == 2
AccessTtlSec == 1
MaxUsers == 2
MaxTokens == 3
MaxShutdowns == 2
MaxConnections == 2

Procs == {1, 2}
Emails == {"a@x.com"}
Passwords == {"pw123456", "wrong"}
Devices == {"", "deviceX"}
\* The two addresses of the histories in which identities compete for an email.
TwoEmails == {"a@x.com", "b@x.com"}
NULL == "NULL"

VARIABLES now, users, nextUserId, tokens, nextTokenId, call, kept, issued, server

vars == <<now, users, nextUserId, tokens, nextTokenId, call, kept, issued, server>>

\* The process once startServer has run: the HTTP server listens, the pool is
\* open, no signal has come and process.exit has not been called (exit = {}).
Listening ==
    [listening |-> TRUE, connections |-> 0, signals |-> <<>>, callbacks |-> 0,
     closed |-> FALSE, pool |-> "open", timers |-> 0, exit |-> {}, cause |-> ""]

\* ------------------------------------------------------------ token codec
\* jsonwebtoken stamps iat in whole seconds: Math.floor(Date.now() / 1000).
NowSec == now \div TicksPerSec

RefreshTtl == RefreshTtlSec * TicksPerSec

\* jwt.sign({id, email}, secret, {expiresIn}): HS256 is deterministic, so the
\* token is a function of the payload, the second of issue and the secret.
Sign(secret, user, ttlSec) ==
    [sig |-> secret, id |-> user.id, email |-> user.email,
     iat |-> NowSec, exp |-> NowSec + ttlSec]

generateRefreshToken(user) == Sign("REFRESH_SECRET", user, RefreshTtlSec)

\* crypto.createHash("sha256").update(token).digest("hex"): unsalted, so equal
\* tokens have equal hashes.
hashToken(token) == <<"sha256", token>>

\* A string that is no JWT signed by this process, and the empty string.
Garbage == [sig |-> "garbage", id |-> 0, email |-> "", iat |-> 0, exp |-> 0]

EmptyToken == [sig |-> "", id |-> 0, email |-> "", iat |-> 0, exp |-> 0]

\* Faulty variant: a token signed with either secret is verified.
verifyToken_AnySecret(token) ==
    IF token.sig \notin {"REFRESH_SECRET", "ACCESS_SECRET"} THEN "JsonWebTokenError"
    ELSE IF NowSec >= token.exp THEN "TokenExpiredError"
    ELSE "decoded"

\* jwt.verify(token, REFRESH_SECRET): throws JsonWebTokenError on a signature that
\* does not verify, TokenExpiredError once the clock second reaches exp.
verifyToken(token) ==
    IF token.sig # "REFRESH_SECRET" THEN "JsonWebTokenError"
    ELSE IF NowSec >= token.exp THEN "TokenExpiredError"
    ELSE "decoded"

\* bcrypt.hash(password, 10) and bcrypt.compare(candidate, hash).
bcryptHash(password) == <<"bcrypt", password>>

bcryptCompare(candidate, hash) == hash = <<"bcrypt", candidate>>

NoPassword == <<>>

\* ------------------------------------------------------------ request slots
IdleCall ==
    [pc |-> "idle", op |-> "none", email |-> "", password |-> "", device |-> "",
     token |-> EmptyToken, sub |-> NULL, name |-> "", user |-> {}, stored |-> {},
     pair |-> {}, branch |-> "", result |-> "none", after |-> FALSE]

Running(p) == call[p].pc \notin {"idle", "done"}

\* No response is waiting to be sent: a response is sent before anything else moves.
Quiet == \A q \in Procs : call[q].pc # "done"

At(p, pc) == Quiet /\ call[p].pc = pc

\* generateToken(user), called in the same tick as generateRefreshToken(user): the
\* access token of the pair whose refresh token is rt.
AccessOf(rt) == [rt EXCEPT !.sig = "ACCESS_SECRET", !.exp = rt.iat + AccessTtlSec]

\* The tokens a client can present: refresh tokens some call returned, the access
\* tokens returned with them, a string that is no token of ours, the empty string.
Presentable == issued \cup {AccessOf(t) : t \in issued} \cup {Garbage, EmptyToken}

\* The verified Google payloads: an id token that does not verify, a payload
\* without an email, and payloads with an email and a subject id.
GoogleSubs == {"g1"}

TwoSubs == {"g1", "g2"}

\* The id tokens that verify and carry an email.
ClaimsOf(emails, subs) ==
    {[valid |-> TRUE, email |-> e, sub |-> s] : e \in emails, s \in subs}

GoogleTokensOf(emails, subs) ==
    {[valid |-> FALSE, email |-> "", sub |-> NULL],
     [valid |-> TRUE, email |-> "", sub |-> "g1"]}
    \cup ClaimsOf(emails, subs)

GoogleTokens == GoogleTokensOf(Emails, GoogleSubs)

Init ==
    /\ now = 0
    /\ users = {}
    /\ nextUserId = 1
    /\ tokens = {}
    /\ nextTokenId = 1
    /\ call = [p \in Procs |-> IdleCall]
    /\ kept = {}
    /\ issued = {}
    /\ server = Listening

\* A call begins. kept is one earlier response, remembered for the properties: the
\* call notes that it began after that response was sent.
Begin(p, c) ==
    /\ At(p, "idle")
    /\ call' = [call EXCEPT ![p] = [c EXCEPT !.after = (kept # {})]]
    /\ kept' = kept

\* A call returns: its arguments, what it read from the ledger and its outcome.
Finish(p, result) ==
    call' = [call EXCEPT ![p] = [@ EXCEPT !.pc = "done", !.result = result,
                                          !.device = "", !.user = {}]]

\* A call that returns from its first step.
Done(c, result) == [c EXCEPT !.pc = "done", !.result = result, !.device = ""]

\* The rows of the ledger that carry the fingerprint of a token, flagged or not.
RecordsOf(token) == {r \in tokens : r.tokenHash = hashToken(token)}

\* Faulty variant: only the rows of local accounts are looked at.
UsersByEmail_LocalOnly(email) ==
    {u \in users : u.email = email /\ u.authProvider = "local"}

UsersByEmail(email) == {u \in users : u.email = email}

UsersById(id) == {u \in users : u.id = id}

\* ------------------------------------------------------------ _generateAuthResponse
\* Faulty variant: the label is stored as given.
DeviceOrDefault_AsGiven(device) == device

DeviceOrDefault(device) == IF device = "" THEN "Unknown Device" ELSE device

\* Faulty variant: the new record replaces the other records of its identity.
LedgerWith_SingleSession(record) ==
    {r \in tokens : r.userId # record.userId} \cup {record}

\* The ledger after db.insert(refreshTokens).values(record): one more row.
LedgerWith(record) == tokens \cup {record}

\* db.insert(refreshTokens): the foreign key on user_id rejects a missing user.
IssueInsert(p) ==
    /\ At(p, "issue_insert")
    /\ LET user == CHOOSE u \in call[p].user : TRUE
           refreshToken == generateRefreshToken(user)
       IN IF UsersById(user.id) = {}
          THEN /\ Finish(p, "DbError23503")
               /\ UNCHANGED <<tokens, nextTokenId>>
          ELSE /\ nextTokenId <= MaxTokens
               /\ tokens' = LedgerWith(
                     [id |-> nextTokenId, userId |-> user.id,
                      tokenHash |-> hashToken(refreshToken),
                      device |-> DeviceOrDefault(call[p].device),
                      expiresAt |-> now + RefreshTtl, revoked |-> FALSE])
               /\ nextTokenId' = nextTokenId + 1
               /\ call' = [call EXCEPT ![p].pc = "issue_update",
                                       ![p].pair = {refreshToken}]
    /\ UNCHANGED <<server, now, users, nextUserId, kept, issued>>

\* db.update(users).set({lastLoginAt}) and the return of the pair.
IssueUpdate(p) ==
    /\ At(p, "issue_update")
    /\ LET user == CHOOSE u \in call[p].user : TRUE
       IN users' = {IF u.id = user.id THEN [u EXCEPT !.lastLoginAt = now] ELSE u
                    : u \in users}
    /\ Finish(p, "ok")
    /\ issued' = issued \cup call[p].pair
    /\ UNCHANGED <<server, now, nextUserId, tokens, nextTokenId, kept>>

\* ------------------------------------------------------------ login
\* Faulty variant: the password is compared before the missing hash is looked at.
LoginCheck_CompareFirst(found, password) ==
    IF found = {} THEN "NotFound"
    ELSE LET user == CHOOSE u \in found : TRUE
         IN IF ~bcryptCompare(password, user.password) THEN "InvalidCredentials"
            ELSE IF user.password = NoPassword THEN "WrongAuthMethod"
            ELSE "pass"

\* The checks of login on the selected row, in the order of the code.
LoginCheck(found, password) ==
    IF found = {} THEN "NotFound"
    ELSE LET user == CHOOSE u \in found : TRUE
         IN IF user.password = NoPassword THEN "WrongAuthMethod"
            ELSE IF ~bcryptCompare(password, user.password) THEN "InvalidCredentials"
            ELSE "pass"

LoginSelectOf(p, emails, devices) ==
    \E email \in emails, password \in Passwords, device \in devices :
        LET found == UsersByEmail(email)
            check == LoginCheck(found, password)
            c == [IdleCall EXCEPT !.op = "login", !.email = email,
                                  !.password = password, !.device = device]
        IN /\ Begin(p, IF check = "pass"
                       THEN [c EXCEPT !.pc = "issue_insert", !.user = found]
                       ELSE Done(c, check))
           /\ UNCHANGED <<server, now, users, nextUserId, tokens, nextTokenId, issued>>

LoginSelect(p, devices) == LoginSelectOf(p, Emails, devices)

\* ------------------------------------------------------------ register
RegisterSelectOf(p, emails, devices) ==
    \E email \in emails, password \in {"pw123456"}, device \in devices :
        LET c == [IdleCall EXCEPT !.op = "register", !.email = email,
                                  !.password = password, !.device = device]
        IN /\ Begin(p, IF UsersByEmail(email) # {}
                       THEN Done(c, "AlreadyExists")
                       ELSE [c EXCEPT !.pc = "register_insert"])
           /\ UNCHANGED <<server, now, users, nextUserId, tokens, nextTokenId, issued>>

RegisterSelect(p, devices) == RegisterSelectOf(p, Emails, devices)

\* Faulty variant: the password is stored as given.
NewLocalUser_Plain(email, password) ==
    [id |-> nextUserId, email |-> email, name |-> "Name",
     password |-> <<"plain", password>>,
     googleId |-> NULL, authProvider |-> "local", lastLoginAt |-> now]

\* The row register inserts: bcrypt.hash(data.password, 10), authProvider 'local';
\* id, google_id and last_login_at take the column defaults.
NewLocalUser(email, password) ==
    [id |-> nextUserId, email |-> email, name |-> "Name",
     password |-> bcryptHash(password),
     googleId |-> NULL, authProvider |-> "local", lastLoginAt |-> now]

\* db.insert(users): the unique index on email rejects a second row.
RegisterInsert(p) ==
    /\ At(p, "register_insert")
    /\ IF UsersByEmail(call[p].email) # {}
       THEN /\ Finish(p, "DbError23505")
            /\ UNCHANGED <<server, users, nextUserId>>
       ELSE LET user == NewLocalUser(call[p].email, call[p].password)
            IN /\ nextUserId <= MaxUsers
               /\ users' = users \cup {user}
               /\ nextUserId' = nextUserId + 1
               /\ call' = [call EXCEPT ![p].pc = "issue_insert", ![p].user = {user}]
    /\ UNCHANGED <<server, now, tokens, nextTokenId, kept, issued>>

\* ------------------------------------------------------------ loginWithGoogle
\* Faulty variant: the payload is not looked at for an email.
GoogleVerify_NoEmailCheck(g) ==
    IF ~g.valid THEN "InvalidFederatedToken" ELSE "pass"

\* googleClient.verifyIdToken throws on a token that does not verify (401 Invalid
\* Google Token); a payload without an email is refused (400 Google account
\* validation failed).
GoogleVerify(g) ==
    IF ~g.valid THEN "InvalidFederatedToken"
    ELSE IF g.email = "" THEN "FederatedClaimsIncomplete"
    ELSE "pass"

\* Faulty variant: the subject id of the claims is attached whenever a row is found.
GoogleBranch_AlwaysLink(found) ==
    IF found = {} THEN "create" ELSE "link"

\* What loginWithGoogle does with the selected row: insert when there is none,
\* link when the row has no googleId, nothing otherwise.
GoogleBranch(found) ==
    IF found = {} THEN "create"
    ELSE LET user == CHOOSE u \in found : TRUE
         IN IF user.googleId = NULL THEN "link" ELSE "linked"

GoogleSelectOf(p, gtokens, devices) ==
    \E g \in gtokens, device \in devices :
        LET c == [IdleCall EXCEPT !.op = "google", !.email = g.email,
                                  !.sub = g.sub, !.device = device]
            found == UsersByEmail(g.email)
            branch == GoogleBranch(found)
        IN /\ Begin(p, IF GoogleVerify(g) # "pass"
                       THEN Done(c, GoogleVerify(g))
                       ELSE IF branch = "create"
                       THEN [c EXCEPT !.pc = "google_insert", !.branch = branch]
                       ELSE IF branch = "link"
                       THEN [c EXCEPT !.pc = "google_link", !.user = found,
                                      !.branch = branch]
                       ELSE [c EXCEPT !.pc = "issue_insert", !.user = found,
                                      !.branch = branch])
           /\ UNCHANGED <<server, now, users, nextUserId, tokens, nextTokenId, issued>>

GoogleSelect(p, devices) == GoogleSelectOf(p, GoogleTokens, devices)

\* Faulty variant: authProvider is left to the column default.
NewGoogleUser_Local(email, sub) ==
    [id |-> nextUserId, email |-> email, name |-> "User", password |-> NoPassword,
     googleId |-> sub, authProvider |-> "local", lastLoginAt |-> now]

\* The row loginWithGoogle inserts: password null, googleId the subject id,
\* authProvider 'google', name from the claims or 'User'.
NewGoogleUser(email, sub) ==
    [id |-> nextUserId, email |-> email, name |-> "User", password |-> NoPassword,
     googleId |-> sub, authProvider |-> "google", lastLoginAt |-> now]

GoogleInsert(p) ==
    /\ At(p, "google_insert")
    /\ IF UsersByEmail(call[p].email) # {}
       THEN /\ Finish(p, "DbError23505")
            /\ UNCHANGED <<server, users, nextUserId>>
       ELSE LET user == NewGoogleUser(call[p].email, call[p].sub)
            IN /\ nextUserId <= MaxUsers
               /\ users' = users \cup {user}
               /\ nextUserId' = nextUserId + 1
               /\ call' = [call EXCEPT ![p].pc = "issue_insert", ![p].user = {user}]
    /\ UNCHANGED <<server, now, tokens, nextTokenId, kept, issued>>

\* Faulty variant: the link rewrites the row without its password.
LinkedUser_DropsPassword(u, sub) ==
    [u EXCEPT !.googleId = sub, !.authProvider = "google", !.password = NoPassword]

\* .set({googleId, authProvider: 'google'})
LinkedUser(u, sub) ==
    [u EXCEPT !.googleId = sub, !.authProvider = "google"]

\* db.update(users).set({googleId, authProvider: 'google'}).where(id = user.id)
GoogleLink(p) ==
    /\ At(p, "google_link")
    /\ LET user == CHOOSE u \in call[p].user : TRUE
       IN users' = {IF u.id = user.id THEN LinkedUser(u, call[p].sub) ELSE u
                    : u \in users}
    /\ call' = [call EXCEPT ![p].pc = "issue_insert"]
    /\ UNCHANGED <<server, now, nextUserId, tokens, nextTokenId, kept, issued>>

\* ------------------------------------------------------------ refresh
\* Faulty variant: the revoked flag is not looked at.
LiveRecords_AnyFlag(token) == {r \in tokens : r.tokenHash = hashToken(token)}

\* .where(and(eq(tokenHash, incomingTokenHash), eq(revoked, false)))
LiveRecords(token) == {r \in tokens : r.tokenHash = hashToken(token) /\ ~r.revoked}

\* The guard on the token, jwt.verify, the hash and the select of the record.
RefreshSelectOf(p, presented) ==
    \E token \in presented :
        LET c == [IdleCall EXCEPT !.op = "refresh", !.token = token]
            found == LiveRecords(token)
        IN /\ Begin(p, IF token = EmptyToken
                       THEN Done(c, "NoTokenProvided")
                       ELSE IF verifyToken(token) # "decoded"
                       THEN Done(c, verifyToken(token))
                       ELSE IF found = {}
                       THEN Done(c, "RefreshReuseOrInvalid")
                       ELSE [c EXCEPT !.pc = "refresh_delete",
                                      !.stored = {CHOOSE r \in found : TRUE}])
           /\ UNCHANGED <<server, now, users, nextUserId, tokens, nextTokenId, issued>>

RefreshSelect(p) == RefreshSelectOf(p, Presentable)

\* Faulty variant: the consumed row is flagged as revoked and kept.
RefreshDelete_Flags(p) ==
    /\ At(p, "refresh_delete")
    /\ LET storedRefreshToken == CHOOSE r \in call[p].stored : TRUE
       IN /\ tokens' = {IF r.id = storedRefreshToken.id
                        THEN [r EXCEPT !.revoked = TRUE] ELSE r : r \in tokens}
          /\ IF now > storedRefreshToken.expiresAt
             THEN Finish(p, "RefreshExpired")
             ELSE call' = [call EXCEPT ![p].pc = "refresh_user"]
    /\ UNCHANGED <<server, now, users, nextUserId, nextTokenId, kept, issued>>

\* The expiry test on the selected row and the delete by id that follows it on
\* either branch.
RefreshDelete(p) ==
    /\ At(p, "refresh_delete")
    /\ LET storedRefreshToken == CHOOSE r \in call[p].stored : TRUE
       IN /\ tokens' = {r \in tokens : r.id # storedRefreshToken.id}
          /\ IF now > storedRefreshToken.expiresAt
             THEN Finish(p, "RefreshExpired")
             ELSE call' = [call EXCEPT ![p].pc = "refresh_user"]
    /\ UNCHANGED <<server, now, users, nextUserId, nextTokenId, kept, issued>>

\* Faulty variant: the identity is looked up by the email in the token's claims.
RefreshIdentity_ByClaims(storedRefreshToken, token) == UsersByEmail(token.email)

\* select from users where id = storedRefreshToken.userId
RefreshIdentity(storedRefreshToken, token) == UsersById(storedRefreshToken.userId)

RefreshUser(p) ==
    /\ At(p, "refresh_user")
    /\ LET storedRefreshToken == CHOOSE r \in call[p].stored : TRUE
           found == RefreshIdentity(storedRefreshToken, call[p].token)
       IN IF found = {}
          THEN Finish(p, "NotFound")
          ELSE call' = [call EXCEPT ![p].pc = "issue_insert",
                                    ![p].user = found,
                                    ![p].device =
                                        IF storedRefreshToken.device = ""
                                        THEN "Unknown"
                                        ELSE storedRefreshToken.device]
    /\ UNCHANGED <<server, now, users, nextUserId, tokens, nextTokenId, kept, issued>>

\* ------------------------------------------------------------ logout
\* Faulty variant: a logout that deletes nothing reports a failure.
LogoutOutcome_FoundOnly(token, found) ==
    IF token = EmptyToken THEN "TokenRequired"
    ELSE IF found = {} THEN "NotFound"
    ELSE "ok"

\* What logout reports: the guard on the token, then success whatever the delete
\* removed.
LogoutOutcome(token, found) ==
    IF token = EmptyToken THEN "TokenRequired" ELSE "ok"

\* Faulty variant: the delete removes every record of the token's identity.
Logout_AllSessions(p) ==
    \E token \in Presentable :
        LET found == {r \in tokens : r.tokenHash = hashToken(token)}
            c == [IdleCall EXCEPT !.op = "logout", !.token = token,
                                  !.stored = found]
        IN /\ Begin(p, Done(c, LogoutOutcome(token, found)))
           /\ tokens' = IF token = EmptyToken THEN tokens
                         ELSE {r \in tokens : \A f \in found : r.userId # f.userId}
           /\ UNCHANGED <<server, now, users, nextUserId, nextTokenId, issued>>

\* The guard, the hash and db.delete(refreshTokens).where(tokenHash = hash).
Logout(p) ==
    \E token \in Presentable :
        LET found == {r \in tokens : r.tokenHash = hashToken(token)}
            c == [IdleCall EXCEPT !.op = "logout", !.token = token,
                                  !.stored = found]
        IN /\ Begin(p, Done(c, LogoutOutcome(token, found)))
           /\ tokens' = IF token = EmptyToken THEN tokens ELSE tokens \ found
           /\ UNCHANGED <<server, now, users, nextUserId, nextTokenId, issued>>

\* ------------------------------------------------------------ userService
\* The passwords the user service is given: createUserSchema and updateUserSchema
\* ask for eight characters or more.
NewPassword == "newpw1234"

\* Faulty variant: the email column has no unique index.
EmailFree_Always(email, id) == TRUE

\* The unique index on users.email: no row other than the row id holds email.
EmailFree(email, id) == \A u \in users : u.email = email => u.id = id

\* userService.create: the select by email (409 Email already exists).
UserCreateSelect(p, emails) ==
    \E email \in emails :
        LET c == [IdleCall EXCEPT !.op = "userCreate", !.email = email,
                                  !.password = "pw123456", !.name = "Name"]
        IN /\ Begin(p, IF UsersByEmail(email) # {}
                       THEN Done(c, "EmailExists")
                       ELSE [c EXCEPT !.pc = "usercreate_insert"])
           /\ UNCHANGED <<server, now, users, nextUserId, tokens, nextTokenId, issued>>

\* userService.create: bcrypt.hash and the insert of {email, name, password};
\* google_id is null and auth_provider takes the column default 'local'.
UserCreateInsert(p) ==
    /\ At(p, "usercreate_insert")
    /\ IF ~EmailFree(call[p].email, 0)
       THEN /\ Finish(p, "DbError23505")
            /\ UNCHANGED <<server, users, nextUserId>>
       ELSE /\ nextUserId <= MaxUsers
            /\ users' = users \cup
                  {[id |-> nextUserId, email |-> call[p].email,
                    name |-> call[p].name,
                    password |-> bcryptHash(call[p].password),
                    googleId |-> NULL, authProvider |-> "local",
                    lastLoginAt |-> now]}
            /\ nextUserId' = nextUserId + 1
            /\ Finish(p, "ok")
    /\ UNCHANGED <<server, now, tokens, nextTokenId, kept, issued>>

\* userService.update: the select by id (404 User not found); an email that differs
\* from the row's is looked up next. A field that is not given is "".
UserUpdateSelect(p, emails, passwords, names) ==
    \E id \in 1..MaxUsers, email \in emails, password \in passwords, name \in names :
        LET c == [IdleCall EXCEPT !.op = "userUpdate", !.email = email,
                                  !.password = password, !.name = name]
            found == UsersById(id)
        IN /\ Begin(p, IF found = {}
                       THEN Done(c, "NotFound")
                       ELSE LET existingUser == CHOOSE u \in found : TRUE
                            IN IF email # "" /\ email # existingUser.email
                               THEN [c EXCEPT !.pc = "userupdate_email",
                                              !.user = found]
                               ELSE [c EXCEPT !.pc = "userupdate_write",
                                              !.user = found])
           /\ UNCHANGED <<server, now, users, nextUserId, tokens, nextTokenId, issued>>

\* userService.update: the select by the new email (409 Email already exists).
UserUpdateEmail(p) ==
    /\ At(p, "userupdate_email")
    /\ IF UsersByEmail(call[p].email) # {}
       THEN Finish(p, "EmailExists")
       ELSE call' = [call EXCEPT ![p].pc = "userupdate_write"]
    /\ UNCHANGED <<server, now, users, nextUserId, tokens, nextTokenId, kept, issued>>

\* Faulty variant: a password that is not given is written as null.
UpdatedUser_ClearsPassword(u, email, name, password) ==
    [u EXCEPT !.email = IF email = "" THEN @ ELSE email,
              !.name = IF name = "" THEN @ ELSE name,
              !.password = IF password = "" THEN NoPassword
                           ELSE bcryptHash(password)]

\* .set({...data, updatedAt}) with the password hashed when one is given.
UpdatedUser(u, email, name, password) ==
    [u EXCEPT !.email = IF email = "" THEN @ ELSE email,
              !.name = IF name = "" THEN @ ELSE name,
              !.password = IF password = "" THEN @ ELSE bcryptHash(password)]

\* userService.update: bcrypt.hash and the update by id, returning the row (500
\* Failed to update user when the row is gone).
UserUpdateWrite(p) ==
    /\ At(p, "userupdate_write")
    /\ LET existingUser == CHOOSE u \in call[p].user : TRUE
           c == call[p]
       IN IF UsersById(existingUser.id) = {}
          THEN /\ Finish(p, "FailedToUpdate")
               /\ users' = users
          ELSE IF c.email # "" /\ ~EmailFree(c.email, existingUser.id)
          THEN /\ Finish(p, "DbError23505")
               /\ users' = users
          ELSE /\ users' = {IF u.id = existingUser.id
                             THEN UpdatedUser(u, c.email, c.name, c.password)
                             ELSE u : u \in users}
               /\ Finish(p, "ok")
    /\ UNCHANGED <<server, now, nextUserId, tokens, nextTokenId, kept, issued>>

\* ------------------------------------------------------------ environment
\* What is remembered of a response.
Memo(c) ==
    [op |-> c.op, email |-> c.email, password |-> c.password, token |-> c.token,
     sub |-> c.sub, stored |-> c.stored, branch |-> c.branch, result |-> c.result]

\* The response is sent and the slot is free for the next request. A successful
\* response of one of the operations ops is either forgotten or remembered in place
\* of the one remembered before; the calls in flight began before it was sent.
Return(p, ops) ==
    /\ call[p].pc = "done"
    /\ \/ /\ call' = [call EXCEPT ![p] = IdleCall]
          /\ kept' = kept
       \/ /\ call[p].op \in ops
          /\ call[p].result = "ok"
          /\ call' = [q \in Procs |->
                         IF q = p THEN IdleCall ELSE [call[q] EXCEPT !.after = FALSE]]
          /\ kept' = {Memo(call[p])}
    /\ UNCHANGED <<server, now, users, nextUserId, tokens, nextTokenId, issued>>

Tick ==
    /\ Quiet
    /\ now < MaxTime
    /\ now' = now + 1
    /\ UNCHANGED <<server, users, nextUserId, tokens, nextTokenId, call, kept, issued>>

\* The password and session operations.
StartSession(p, devices) ==
    \/ LoginSelect(p, devices)
    \/ RegisterSelect(p, devices)
    \/ RefreshSelect(p)
    \/ Logout(p)

StepSession(p) ==
    \/ IssueInsert(p)
    \/ IssueUpdate(p)
    \/ RegisterInsert(p)
    \/ RefreshDelete(p)
    \/ RefreshUser(p)

StartCall(p, devices) ==
    \/ StartSession(p, devices)
    \/ GoogleSelect(p, devices)

StepCall(p) ==
    \/ StepSession(p)
    \/ GoogleInsert(p)
    \/ GoogleLink(p)

\* Concurrent requests of the password and session operations.
Next ==
    \/ \E p \in Procs : StartSession(p, {"deviceX"}) \/ StepSession(p)
    \/ \E p \in Procs : Return(p, {"refresh"})
    \/ Tick

Spec == Init /\ [][Next]_vars

\* One request at a time: a call begins only when no other call is in flight.
StartAlone(p) ==
    /\ \A q \in Procs : ~Running(q)
    /\ StartCall(p, Devices)

OneAtATime ==
    \/ \E p \in Procs : StartAlone(p)
    \/ \E p \in Procs : StepCall(p)
    \/ Tick

NextSeq ==
    \/ OneAtATime
    \/ \E p \in Procs : Return(p, {"refresh"})

SpecSeq == Init /\ [][NextSeq]_vars

NextLogout ==
    \/ OneAtATime
    \/ \E p \in Procs : Return(p, {"logout"})

SpecLogout == Init /\ [][NextLogout]_vars

NextRegister ==
    \/ OneAtATime
    \/ \E p \in Procs : Return(p, {"register"})

SpecRegister == Init /\ [][NextRegister]_vars

\* ------------------------------------------------------------ store failures
\* The awaited insert of the refresh record rejects (the store is unreachable, the
\* statement times out): _generateAuthResponse throws and nothing is stored.
\* Faulty variant: the pair that was generated is returned all the same.
IssueInsertFails_ReturnsPair(p) ==
    /\ At(p, "issue_insert")
    /\ LET user == CHOOSE u \in call[p].user : TRUE
       IN /\ call' = [call EXCEPT ![p] = [@ EXCEPT !.pc = "done", !.result = "ok",
                                                   !.pair = {generateRefreshToken(user)},
                                                   !.device = "", !.user = {}]]
          /\ issued' = issued \cup {generateRefreshToken(user)}
    /\ UNCHANGED <<server, now, users, nextUserId, tokens, nextTokenId, kept>>

IssueInsertFails(p) ==
    /\ At(p, "issue_insert")
    /\ Finish(p, "DbError")
    /\ UNCHANGED <<server, now, users, nextUserId, tokens, nextTokenId, kept, issued>>

NextFault ==
    \/ OneAtATime
    \/ \E p \in Procs : Return(p, {})
    \/ \E p \in Procs : IssueInsertFails(p)

SpecFault == Init /\ [][NextFault]_vars

\* The awaited update of lastLoginAt rejects after the refresh record was
\* inserted: _generateAuthResponse throws, the pair it generated is not returned
\* and the inserted record stays.
IssueUpdateFails(p) ==
    /\ At(p, "issue_update")
    /\ call' = [call EXCEPT ![p] = [@ EXCEPT !.pc = "done", !.result = "DbError",
                                             !.pair = {}, !.device = "",
                                             !.user = {}]]
    /\ UNCHANGED <<server, now, users, nextUserId, tokens, nextTokenId, kept, issued>>

NextUpdateFault ==
    \/ OneAtATime
    \/ \E p \in Procs : Return(p, {})
    \/ \E p \in Procs : IssueUpdateFails(p)

SpecUpdateFault == Init /\ [][NextUpdateFault]_vars

\* ------------------------------------------------------------ identities
\* The session tail shared by register, login and loginWithGoogle.
StepIssue(p) ==
    \/ IssueInsert(p)
    \/ IssueUpdate(p)

\* Concurrent requests that create and change identities: register,
\* loginWithGoogle, userService.create and userService.update.
NextIdentity ==
    \/ \E p \in Procs : RegisterSelectOf(p, TwoEmails, {"deviceX"})
    \/ \E p \in Procs : GoogleSelectOf(p, ClaimsOf(TwoEmails, GoogleSubs), {"deviceX"})
    \/ \E p \in Procs : UserCreateSelect(p, TwoEmails)
    \/ \E p \in Procs : UserUpdateSelect(p, TwoEmails, {""}, {""})
    \/ \E p \in Procs : StepIssue(p)
    \/ \E p \in Procs : RegisterInsert(p) \/ GoogleInsert(p) \/ GoogleLink(p)
    \/ \E p \in Procs : UserCreateInsert(p) \/ UserUpdateEmail(p) \/ UserUpdateWrite(p)
    \/ \E p \in Procs : Return(p, {})

SpecIdentity == Init /\ [][NextIdentity]_vars

\* One request at a time, of the operations that create and change identities,
\* with every field userService.update can be given.
StartAccount(p) ==
    /\ \A q \in Procs : ~Running(q)
    /\ \/ RegisterSelectOf(p, TwoEmails, {"deviceX"})
       \/ GoogleSelectOf(p, ClaimsOf(TwoEmails, GoogleSubs), {"deviceX"})
       \/ UserCreateSelect(p, TwoEmails)
       \/ UserUpdateSelect(p, TwoEmails \cup {""}, {"", NewPassword},
                           {"", "Renamed"})

NextAccount ==
    \/ \E p \in Procs : StartAccount(p)
    \/ \E p \in Procs : StepIssue(p)
    \/ \E p \in Procs : RegisterInsert(p) \/ GoogleInsert(p) \/ GoogleLink(p)
    \/ \E p \in Procs : UserCreateInsert(p) \/ UserUpdateEmail(p) \/ UserUpdateWrite(p)
    \/ \E p \in Procs : Return(p, {})

SpecAccount == Init /\ [][NextAccount]_vars

\* One request at a time, of register, login and loginWithGoogle with the id tokens
\* of two Google accounts; a successful loginWithGoogle may be remembered.
StartGoogle(p) ==
    /\ \A q \in Procs : ~Running(q)
    /\ \/ RegisterSelectOf(p, Emails, {"deviceX"})
       \/ LoginSelectOf(p, Emails, {"deviceX"})
       \/ GoogleSelectOf(p, GoogleTokensOf(Emails, TwoSubs), {"deviceX"})

NextGoogle ==
    \/ \E p \in Procs : StartGoogle(p)
    \/ \E p \in Procs : StepIssue(p)
    \/ \E p \in Procs : RegisterInsert(p) \/ GoogleInsert(p) \/ GoogleLink(p)
    \/ \E p \in Procs : Return(p, {"google"})
    \/ Tick

SpecGoogle == Init /\ [][NextGoogle]_vars

\* One request at a time, of register, refresh and a userService.update that
\* changes the email: the claims inside a token grow stale.
StartRotate(p) ==
    /\ \A q \in Procs : ~Running(q)
    /\ \/ RegisterSelectOf(p, Emails, Devices)
       \/ RefreshSelectOf(p, issued)
       \/ UserUpdateSelect(p, TwoEmails, {""}, {""})

NextRotate ==
    \/ \E p \in Procs : StartRotate(p)
    \/ \E p \in Procs : StepIssue(p)
    \/ \E p \in Procs : RegisterInsert(p) \/ RefreshDelete(p) \/ RefreshUser(p)
    \/ \E p \in Procs : UserUpdateEmail(p) \/ UserUpdateWrite(p)
    \/ \E p \in Procs : Return(p, {})
    \/ Tick

SpecRotate == Init /\ [][NextRotate]_vars

\* A refresh token signed with the refresh secret that no call has stored or
\* returned: its lifetime is not the one generateRefreshToken gives.
NeverStored ==
    [sig |-> "REFRESH_SECRET", id |-> 1, email |-> "a@x.com",
     iat |-> 0, exp |-> MaxTime + 1]

\* refresh_tokens.revoked: no operation of the service writes the column; a row is
\* flagged from outside, by whoever administers the table.
Revoke ==
    /\ Quiet
    /\ \E r \in tokens :
          /\ ~r.revoked
          /\ tokens' = (tokens \ {r}) \cup {[r EXCEPT !.revoked = TRUE]}
    /\ UNCHANGED <<server, now, users, nextUserId, nextTokenId, call, kept, issued>>

\* One request at a time, of register, refresh and logout, with rows flagged as
\* revoked in between and a signed token that was never stored.
StartRevoke(p) ==
    /\ \A q \in Procs : ~Running(q)
    /\ \/ RegisterSelectOf(p, Emails, {""})
       \/ RefreshSelectOf(p, issued \cup {NeverStored})
       \/ Logout(p)

NextRevoke ==
    \/ \E p \in Procs : StartRevoke(p)
    \/ \E p \in Procs : StepIssue(p)
    \/ \E p \in Procs : RegisterInsert(p) \/ RefreshDelete(p) \/ RefreshUser(p)
    \/ \E p \in Procs : Return(p, {})
    \/ Revoke
    \/ Tick

SpecRevoke == Init /\ [][NextRevoke]_vars

\* Concurrent requests of register and refresh: register is the only call that
\* establishes a session, and an identity is registered once.
NextRace ==
    \/ \E p \in Procs : RegisterSelectOf(p, Emails, {"deviceX"})
    \/ \E p \in Procs : RefreshSelectOf(p, issued)
    \/ \E p \in Procs : StepIssue(p)
    \/ \E p \in Procs : RegisterInsert(p) \/ RefreshDelete(p) \/ RefreshUser(p)
    \/ \E p \in Procs : Return(p, {})
    \/ Tick

SpecRace == Init /\ [][NextRace]_vars

\* Concurrent requests of register, refresh and logout; a logout that returned may
\* be remembered.
NextLogoutRace ==
    \/ \E p \in Procs : RegisterSelectOf(p, Emails, {"deviceX"})
    \/ \E p \in Procs : RefreshSelectOf(p, issued)
    \/ \E p \in Procs : Logout(p)
    \/ \E p \in Procs : StepIssue(p)
    \/ \E p \in Procs : RegisterInsert(p) \/ RefreshDelete(p) \/ RefreshUser(p)
    \/ \E p \in Procs : Return(p, {"logout"})
    \/ Tick

SpecLogoutRace == Init /\ [][NextLogoutRace]_vars

\* Concurrent requests of register and of loginWithGoogle with the id tokens of
\* two Google accounts that carry the same email.
NextLinkRace ==
    \/ \E p \in Procs : RegisterSelectOf(p, Emails, {"deviceX"})
    \/ \E p \in Procs : GoogleSelectOf(p, ClaimsOf(Emails, TwoSubs), {"deviceX"})
    \/ \E p \in Procs : StepIssue(p)
    \/ \E p \in Procs : RegisterInsert(p) \/ GoogleInsert(p) \/ GoogleLink(p)
    \/ \E p \in Procs : Return(p, {})
    \/ Tick

SpecLinkRace == Init /\ [][NextLinkRace]_vars

\* ------------------------------------------------------------ deletion
\* Faulty variant: the rows that reference the deleted identity are left behind.
Cascade_None(id) == tokens

\* refresh_tokens.user_id references users.id with onDelete: cascade: the ledger
\* after the identity id is deleted.
Cascade(id) == {r \in tokens : r.userId # id}

\* userService.delete: one delete ... returning statement; 404 User not found when
\* it returns no row. The row that was deleted is kept in user.
UserDelete(p) ==
    \E id \in 1..MaxUsers :
        LET c == [IdleCall EXCEPT !.op = "userDelete"]
            deleted == UsersById(id)
        IN /\ Begin(p, IF deleted = {}
                       THEN Done(c, "NotFound")
                       ELSE Done([c EXCEPT !.user = deleted], "ok"))
           /\ users' = users \ deleted
           /\ tokens' = Cascade(id)
           /\ UNCHANGED <<server, now, nextUserId, nextTokenId, issued>>

\* Concurrent requests of register, refresh and userService.delete.
NextDelete ==
    \/ \E p \in Procs : RegisterSelectOf(p, Emails, {"deviceX"})
    \/ \E p \in Procs : RefreshSelectOf(p, issued)
    \/ \E p \in Procs : UserDelete(p)
    \/ \E p \in Procs : StepIssue(p)
    \/ \E p \in Procs : RegisterInsert(p) \/ RefreshDelete(p) \/ RefreshUser(p)
    \/ \E p \in Procs : Return(p, {})
    \/ Tick

SpecDelete == Init /\ [][NextDelete]_vars

\* ------------------------------------------------------------ shutdown
Alive == server.exit = {}

\* net.Server emits 'close' once the handle is closed and no connection is left.
Drained(s) == ~s.listening /\ s.connections = 0

\* Faulty variant: the catch around closeConnection exits with 0.
CatchExit_Zero == {0}

\* process.exit(1) in the catch around closeConnection.
CatchExit == {1}

\* SIGTERM or SIGINT is among the signals the process has received.
Signalled ==
    \E i \in 1..Len(server.signals) : server.signals[i] \in {"SIGTERM", "SIGINT"}

\* 'close' is emitted: every callback given to server.close runs up to its
\* await closeConnection(). The first pool.end() starts closing the pool; a
\* pool.end() on a pool that is already ending rejects at once ("Called end on
\* pool more than once"), and that callback's catch exits before the first
\* pool.end() can settle.
EmitClose(s) ==
    IF s.pool = "open" /\ s.callbacks = 1
    THEN [s EXCEPT !.closed = TRUE, !.callbacks = 0, !.pool = "ending"]
    ELSE [s EXCEPT !.closed = TRUE, !.callbacks = 0, !.pool = "ending",
                   !.exit = CatchExit, !.cause = "poolError"]

\* _emitCloseIfDrained, on the next tick after server.close or after a connection
\* has ended.
EmitCloseIfDrained(s) ==
    IF ~Drained(s) THEN s
    ELSE IF s.callbacks > 0 THEN EmitClose(s)
    ELSE [s EXCEPT !.closed = TRUE]

\* A client connects to the listening server; a connection ends.
Connect ==
    /\ Alive /\ server.listening
    /\ server.connections < MaxConnections
    /\ server' = [server EXCEPT !.connections = @ + 1]
    /\ UNCHANGED <<now, users, nextUserId, tokens, nextTokenId, call, kept, issued>>

Disconnect ==
    /\ Alive /\ server.connections > 0
    /\ server' = EmitCloseIfDrained([server EXCEPT !.connections = @ - 1])
    /\ UNCHANGED <<now, users, nextUserId, tokens, nextTokenId, call, kept, issued>>

\* gracefulShutdown(signal), run by the SIGTERM and SIGINT handlers and by the
\* unhandledRejection and uncaughtException handlers: server.close(callback) stops listening and registers the callback on 'close',
\* and a timer of ten seconds is armed.
gracefulShutdown(signal) ==
    /\ Alive /\ Len(server.signals) < MaxShutdowns
    /\ server' = EmitCloseIfDrained(
                     [server EXCEPT !.signals = Append(@, signal),
                                    !.listening = FALSE,
                                    !.callbacks = @ + 1,
                                    !.timers = @ + 1])
    /\ UNCHANGED <<now, users, nextUserId, tokens, nextTokenId, call, kept, issued>>

\* closeConnection: the pool.end() that is under way resolves, and the callback
\* that awaits it goes on to process.exit(0); or it rejects, and the catch exits.
closeConnectionResolves ==
    /\ Alive /\ server.pool = "ending"
    /\ server' = [server EXCEPT !.pool = "ended", !.exit = {0},
                                !.cause = "completed"]
    /\ UNCHANGED <<now, users, nextUserId, tokens, nextTokenId, call, kept, issued>>

closeConnectionRejects ==
    /\ Alive /\ server.pool = "ending"
    /\ server' = [server EXCEPT !.pool = "failed", !.exit = CatchExit,
                                !.cause = "poolError"]
    /\ UNCHANGED <<now, users, nextUserId, tokens, nextTokenId, call, kept, issued>>

\* The timer of a gracefulShutdown fires: process.exit(1).
ForcedShutdown ==
    /\ Alive /\ server.timers > 0
    /\ server' = [server EXCEPT !.exit = {1}, !.cause = "forced"]
    /\ UNCHANGED <<now, users, nextUserId, tokens, nextTokenId, call, kept, issued>>

NextShutdown ==
    \/ Connect
    \/ Disconnect
    \/ gracefulShutdown("SIGTERM")
    \/ gracefulShutdown("SIGINT")
    \/ gracefulShutdown("UNHANDLED_REJECTION")
    \/ gracefulShutdown("UNCAUGHT_EXCEPTION")
    \/ closeConnectionResolves
    \/ closeConnectionRejects
    \/ ForcedShutdown

\* A timer that is armed fires unless the process has exited before.
SpecShutdown == Init /\ [][NextShutdown]_vars /\ WF_vars(ForcedShutdown)

\* ------------------------------------------------------------ errors
\* A thrown value as errorHandler sees it: its class, the statusCode and message
\* an AppError carries, and its code property if it has one (code = {} if not).
AppError(statusCode, message) ==
    [class |-> "AppError", statusCode |-> statusCode, message |-> message,
     code |-> {}]

\* An error that is neither a ZodError nor an AppError, with a code property.
StoreError(code) ==
    [class |-> "Error", statusCode |-> 0, message |-> "store", code |-> {code}]

\* An Error of a library, without a code property.
PlainError(message) ==
    [class |-> "Error", statusCode |-> 0, message |-> message, code |-> {}]

\* The error behind each failure of a service call.
ErrorOf(result) ==
    CASE result = "InvalidFederatedToken" -> AppError(401, "Invalid Google Token")
      [] result = "FederatedClaimsIncomplete" ->
             AppError(400, "Google account validation failed")
      [] result = "NotFound" -> AppError(404, "User not found")
      [] result = "WrongAuthMethod" -> AppError(400, "Please login with Google")
      [] result = "InvalidCredentials" -> AppError(401, "Invalid password")
      [] result = "AlreadyExists" -> AppError(400, "User already exists")
      [] result = "NoTokenProvided" -> AppError(401, "No token provided")
      [] result = "RefreshReuseOrInvalid" ->
             AppError(401, "Refresh token reuse detected or invalid")
      [] result = "RefreshExpired" -> AppError(401, "Refresh token expired")
      [] result = "TokenRequired" -> AppError(400, "Token required")
      [] result = "EmailExists" -> AppError(409, "Email already exists")
      [] result = "FailedToUpdate" -> AppError(500, "Failed to update user")
      [] result = "DbError23505" -> StoreError("23505")
      [] result = "DbError23503" -> StoreError("23503")
      [] result = "DbError" -> StoreError("ECONNREFUSED")
      [] result = "JsonWebTokenError" -> PlainError("invalid signature")
      [] result = "TokenExpiredError" -> PlainError("jwt expired")
      [] result = "TypeError" -> StoreError("ERR_INVALID_ARG_TYPE")

\* Faulty variant: the code property is looked at before the class.
errorHandler_CodeFirst(err) ==
    IF err.code = {"23505"}
    THEN [status |-> 409, message |-> "Resource already exists"]
    ELSE IF err.code = {"23503"}
    THEN [status |-> 400, message |-> "Invalid reference"]
    ELSE IF err.code = {"23502"}
    THEN [status |-> 400, message |-> "Required field missing"]
    ELSE IF err.code # {}
    THEN [status |-> 500, message |-> "Database error"]
    ELSE IF err.class = "ZodError"
    THEN [status |-> 400, message |-> "Validation Error"]
    ELSE IF err.class = "AppError"
    THEN [status |-> err.statusCode, message |-> err.message]
    ELSE IF err.class = "Error"
    THEN [status |-> 500, message |-> err.message]
    ELSE [status |-> 500, message |-> "Internal Server Error"]

\* errorHandler: the status and message of the response, by the first branch of
\* the if / else-if chain that matches.
errorHandler(err) ==
    IF err.class = "ZodError"
    THEN [status |-> 400, message |-> "Validation Error"]
    ELSE IF err.class = "AppError"
    THEN [status |-> err.statusCode, message |-> err.message]
    ELSE IF err.code # {}
    THEN IF err.code = {"23505"}
         THEN [status |-> 409, message |-> "Resource already exists"]
         ELSE IF err.code = {"23503"}
         THEN [status |-> 400, message |-> "Invalid reference"]
         ELSE IF err.code = {"23502"}
         THEN [status |-> 400, message |-> "Required field missing"]
         ELSE [status |-> 500, message |-> "Database error"]
    ELSE IF err.class = "Error"
    THEN [status |-> 500, message |-> err.message]
    ELSE [status |-> 500, message |-> "Internal Server Error"]

\* The values handed to errorHandler: every class with every code property and
\* every statusCode property (0: none; an AppError always has one).
ErrorClasses == {"ZodError", "AppError", "Error", "Object"}

ErrorCodes ==
    {{}, {"23505"}, {"23503"}, {"23502"}, {"ECONNREFUSED"}, {"ERR_INVALID_ARG_TYPE"}}

ThrownStatuses == {400, 401, 404, 409, 500}

Errors ==
    {err \in [class : ErrorClasses, statusCode : ThrownStatuses \cup {0},
              message : {"thrown"}, code : ErrorCodes] :
        err.class = "AppError" => err.statusCode # 0}

\* asyncHandler passes a rejection to errorHandler, which sends the response.
Throw(p) ==
    \E err \in Errors :
        /\ Begin(p, [IdleCall EXCEPT !.op = "errorHandler", !.pc = "done",
                                     !.stored = {err},
                                     !.pair = {errorHandler(err)},
                                     !.result = "sent"])
        /\ UNCHANGED <<server, now, users, nextUserId, tokens, nextTokenId, issued>>

NextErrors ==
    \/ \E p \in Procs : Throw(p)
    \/ \E p \in Procs : Return(p, {})

SpecErrors == Init /\ [][NextErrors]_vars

\* ------------------------------------------------------------ logout request
\* The parsed JSON body of a logout request, { refreshToken: token }: an object,
\* where a bare token would be [type |-> "string", value |-> token].
BodyOf(token) == [type |-> "object", refreshToken |-> token]

\* AuthController.logout: the argument it hands to authService.logout is req.body.
LogoutArgument(body) == body

\* authService.logout(refreshTokenString) on that argument: an object is truthy, so
\* the "Token required" test passes, and createHash("sha256").update(object)
\* throws a TypeError that carries code ERR_INVALID_ARG_TYPE before any statement
\* reaches the store.
LogoutOf(refreshTokenString) ==
    IF refreshTokenString.type = "string"
    THEN [result |-> LogoutOutcome(refreshTokenString.value,
                                   RecordsOf(refreshTokenString.value)),
          deleted |-> IF refreshTokenString.value = EmptyToken
                      THEN {} ELSE RecordsOf(refreshTokenString.value)]
    ELSE [result |-> "TypeError", deleted |-> {}]

\* POST logout with body { refreshToken: token }, through the controller.
LogoutRequest(p) ==
    \E token \in issued :
        LET out == LogoutOf(LogoutArgument(BodyOf(token)))
            c == [IdleCall EXCEPT !.op = "logoutRequest", !.token = token,
                                  !.stored = out.deleted]
        IN /\ Begin(p, Done(c, out.result))
           /\ tokens' = tokens \ out.deleted
           /\ UNCHANGED <<server, now, users, nextUserId, nextTokenId, issued>>

\* One request at a time, of register and of logout through the controller.
StartLogoutRequest(p) ==
    /\ \A q \in Procs : ~Running(q)
    /\ \/ RegisterSelectOf(p, Emails, Devices)
       \/ LogoutRequest(p)

NextLogoutRequest ==
    \/ \E p \in Procs : StartLogoutRequest(p)
    \/ \E p \in Procs : StepIssue(p)
    \/ \E p \in Procs : RegisterInsert(p)
    \/ \E p \in Procs : Return(p, {})
    \/ Tick

SpecLogoutRequest == Init /\ [][NextLogoutRequest]_vars

\* ------------------------------------------------------------ properties
Returned(p, op) == call[p].pc = "done" /\ call[p].op = op

RefreshOk(p) == Returned(p, "refresh") /\ call[p].result = "ok"

Ok(c, op) == c.op = op /\ c.result = "ok"

\* C1: of the refresh calls that present the same token, at most one returns a pair
\* on the strength of one ledger record: the record one call has observed is never
\* observed (and rotated) by a second call.
C1_OneRefreshPerRecord ==
    \A k \in kept, q \in Procs :
        (Ok(k, "refresh") /\ RefreshOk(q) /\ call[q].token = k.token)
            => call[q].stored # k.stored

\* C2: in a sequential history, once refresh(t) has returned a pair, no later
\* refresh(t) is accepted again.
C2_ConsumedTokenNeverAccepted ==
    \A k \in kept, q \in Procs :
        (Ok(k, "refresh") /\ Returned(q, "refresh") /\ call[q].after
         /\ call[q].token = k.token)
            => call[q].result # "ok"

\* C3: rotation is atomic: a refresh call that fails (other than by finding the
\* record expired) leaves the record it read in the ledger; the record is never
\* deleted without a replacement being stored and a pair returned.
C3_FailedRefreshKeepsRecord ==
    \A p \in Procs :
        (Returned(p, "refresh") /\ call[p].result \notin {"ok", "RefreshExpired"})
            => call[p].stored \subseteq tokens

\* The step in which a refresh call consumes the record and goes on to issue.
ConsumeStep(p) ==
    /\ call[p].pc = "refresh_delete"
    /\ call'[p].pc = "refresh_user"

\* C4: a refresh call goes on to issue a pair only if, when it consumes the
\* record, the ledger holds an unrevoked record with the token's fingerprint and
\* now < expiresAt, strictly.
C4_ConsumedOnlyIfUsable ==
    [][\A p \in Procs :
          ConsumeStep(p) =>
              \E r \in tokens : /\ r.tokenHash = hashToken(call[p].token)
                                /\ ~r.revoked
                                /\ now < r.expiresAt]_vars

\* The step in which a refresh call begins while the ledger holds an expired
\* record of its token.
BeginsOnExpired(p) ==
    /\ call[p].pc = "idle"
    /\ call'[p].op = "refresh"
    /\ \E r \in tokens : /\ r.tokenHash = hashToken(call'[p].token)
                         /\ ~r.revoked
                         /\ now > r.expiresAt

\* C5: a refresh call that begins when the ledger record of its token has expired
\* is turned away with RefreshExpired and nothing else.
C5_ExpiredRefreshReported ==
    [][\A p \in Procs :
          (BeginsOnExpired(p) /\ call'[p].pc = "done")
              => call'[p].result = "RefreshExpired"]_vars

\* C6: no two ledger records carry the same token fingerprint.
C6_FingerprintUnique ==
    \A r1 \in tokens, r2 \in tokens : r1.tokenHash = r2.tokenHash => r1 = r2

C8_NoRefreshAfterLogout ==
    \A k \in kept, q \in Procs :
        (Ok(k, "logout") /\ k.stored # {}
         /\ Returned(q, "refresh") /\ call[q].after /\ call[q].token = k.token)
            => call[q].result # "ok"

\* What the first step of a login call must decide, and what it must leave alone.
LoginDecision(p) ==
    LET c == call'[p]
        found == UsersByEmail(c.email)
    IN /\ c.result = "NotFound" <=> found = {}
       /\ \A u \in found :
            /\ c.result = "WrongAuthMethod" <=> u.password = NoPassword
            /\ c.result = "InvalidCredentials" <=>
                   (u.password # NoPassword /\ u.password # bcryptHash(c.password))
            /\ c.pc = "issue_insert" <=> u.password = bcryptHash(c.password)
       /\ c.pc \in {"done", "issue_insert"}
       /\ c.pc = "done" => (users' = users /\ tokens' = tokens)

\* What a login call that passed the checks must return.
LoginCompletion(p) ==
    /\ call'[p].result = "ok"
    /\ call'[p].pair # {}
    /\ \A t \in call'[p].pair : \E r \in tokens' : r.tokenHash = hashToken(t)

\* C9: login fails NotFound when no identity has the email, WrongAuthMethod when
\* the identity has no password hash (whatever the password), InvalidCredentials
\* when the password does not match the hash, and otherwise goes on to return a
\* pair; each failure leaves the identities and the ledger as they were.
C9_LoginOutcomes ==
    [][\A p \in Procs :
          /\ (call[p].pc = "idle" /\ call'[p].op = "login") => LoginDecision(p)
          /\ (call[p].op = "login" /\ Running(p) /\ call'[p].pc = "done")
                 => LoginCompletion(p)]_vars

\* A login on an identity without a password hash was refused as WrongAuthMethod.
C9_Witness ==
    \E p \in Procs, u \in users :
        /\ Returned(p, "login") /\ call[p].result = "WrongAuthMethod"
        /\ u.email = call[p].email /\ u.password = NoPassword

\* C10: when register returns a pair, an identity with that email exists with
\* authProvider local and the hash of the password; every login with the same
\* email and password that begins afterwards returns a pair, whatever refreshes and
\* logouts came in between.
C10_LoginAfterRegister ==
    /\ \A p \in Procs :
          (Returned(p, "register") /\ call[p].result = "ok") =>
              \E u \in users : /\ u.email = call[p].email
                               /\ u.authProvider = "local"
                               /\ u.password = bcryptHash(call[p].password)
    /\ \A k \in kept, q \in Procs :
          (Ok(k, "register") /\ Returned(q, "login") /\ call[q].after
           /\ call[q].email = k.email /\ call[q].password = k.password)
              => call[q].result = "ok"

\* A login after a registration returned a pair, and a record issued in between
\* has since been removed by a refresh or a logout.
C10_Witness ==
    \E k \in kept, q \in Procs :
        /\ Ok(k, "register") /\ Returned(q, "login") /\ call[q].after
        /\ call[q].email = k.email /\ call[q].password = k.password
        /\ call[q].result = "ok"
        /\ Cardinality(tokens) < nextTokenId - 1

\* C12: whatever the interleaving of register calls with the same email, a call
\* that does not succeed fails with AlreadyExists and with nothing else.
C12_RegisterFailsAlreadyExists ==
    \A p \in Procs :
        (Returned(p, "register") /\ call[p].result # "ok")
            => call[p].result = "AlreadyExists"

\* C13: no two identities have the same email.
C13_EmailUnique ==
    \A u1 \in users, u2 \in users : u1.email = u2.email => u1 = u2

\* An update that changes the email lost the race to another writer of that email
\* and was turned away by the unique index.
C13_Witness ==
    \E p \in Procs :
        /\ Returned(p, "userUpdate") /\ call[p].result = "DbError23505"
        /\ \E u \in users : u.email = call[p].email

\* C18: every identity with authProvider local has a password hash.
C18_LocalHasPassword ==
    \A u \in users : u.authProvider = "local" => u.password # NoPassword

\* A local identity whose password was replaced by an update next to an identity
\* created by loginWithGoogle, which has none.
C18_Witness ==
    \E u1 \in users, u2 \in users :
        /\ u1.authProvider = "local" /\ u1.password = bcryptHash(NewPassword)
        /\ u2.authProvider = "google" /\ u2.password = NoPassword
        /\ u2.name = "Renamed"

\* C11: a register call that begins when an identity holds its email fails with
\* AlreadyExists at once, creates no identity and no ledger record and leaves the
\* identities as they were.
C11_RegisterExistingEmail ==
    [][\A p \in Procs :
          (/\ call[p].pc = "idle"
           /\ call'[p].op = "register"
           /\ \E u \in users : u.email = call'[p].email)
              => /\ call'[p].pc = "done"
                 /\ call'[p].result = "AlreadyExists"
                 /\ users' = users
                 /\ tokens' = tokens]_vars

\* A register was refused for the email of an identity that loginWithGoogle
\* created, next to a second identity made by the user service.
C11_Witness ==
    \E p \in Procs, u \in users, v \in users :
        /\ Returned(p, "register") /\ call[p].result = "AlreadyExists"
        /\ u.email = call[p].email /\ u.password = NoPassword /\ u.googleId # NULL
        /\ v.id # u.id /\ v.authProvider = "local"

\* The row of the identity a call holds, as the store has it now.
RowOf(p) == {u \in users : \E c \in call[p].user : c.id = u.id}

\* The step in which loginWithGoogle links: the row gets the subject id and
\* authProvider google, and nothing else of it or of another row changes.
LinkStep(p) ==
    (call[p].pc = "google_link" /\ call'[p].pc = "issue_insert") =>
        \A u \in RowOf(p) :
            (u.password # NoPassword /\ u.googleId = NULL) =>
                users' = (users \ {u}) \cup
                    {[u EXCEPT !.googleId = call[p].sub, !.authProvider = "google"]}

\* After a loginWithGoogle that linked has returned, a login with the password of
\* the identity and a loginWithGoogle with the same claims return a pair.
LinkedLogins ==
    \A k \in kept, q \in Procs :
        (Ok(k, "google") /\ k.branch = "link" /\ call[q].pc = "done" /\ call[q].after
         /\ call[q].email = k.email)
            => /\ (call[q].op = "login" /\ call[q].password = "pw123456")
                      => call[q].result = "ok"
               /\ (call[q].op = "google" /\ call[q].sub = k.sub)
                      => call[q].result = "ok"

\* C14: loginWithGoogle on the email of an identity with a password hash and no
\* googleId gives the identity the subject id and authProvider google and keeps
\* its password hash; afterwards login with the original password and
\* loginWithGoogle with the same claims both succeed.
C14_LinkKeepsPassword ==
    /\ [][\A p \in Procs : LinkStep(p)]_vars
    /\ [](LinkedLogins)

\* A login with the password returned a pair after the account was linked.
C14_Witness ==
    \E k \in kept, q \in Procs, u \in users :
        /\ Ok(k, "google") /\ k.branch = "link"
        /\ Returned(q, "login") /\ call[q].after /\ call[q].email = k.email
        /\ call[q].result = "ok"
        /\ u.email = k.email /\ u.googleId = k.sub /\ u.authProvider = "google"
        /\ u.password = bcryptHash(call[q].password)

\* The step in which loginWithGoogle creates: exactly one identity is added, with
\* the email and the subject id of the claims, authProvider google, no password.
CreateStep(p) ==
    (call[p].pc = "google_insert" /\ call'[p].pc = "issue_insert") =>
        /\ \A u \in users : u.email # call[p].email
        /\ \E u \in users' :
              /\ users' = users \cup {u}
              /\ u \notin users
              /\ u.email = call[p].email
              /\ u.googleId = call[p].sub
              /\ u.authProvider = "google"
              /\ u.password = NoPassword

\* After a loginWithGoogle that created the identity has returned, a login on its
\* email is refused as WrongAuthMethod, whatever the password.
CreatedLogins ==
    \A k \in kept, q \in Procs :
        (Ok(k, "google") /\ k.branch = "create" /\ Returned(q, "login")
         /\ call[q].after /\ call[q].email = k.email)
            => call[q].result = "WrongAuthMethod"

\* C15: loginWithGoogle on an email no identity has creates exactly one identity
\* with that email, authProvider google, the subject id and no password hash; a
\* later login on that email fails with WrongAuthMethod.
C15_CreateWithoutPassword ==
    /\ [][\A p \in Procs : CreateStep(p)]_vars
    /\ [](CreatedLogins)

\* A login with the password other accounts register with was refused on the
\* identity loginWithGoogle created.
C15_Witness ==
    \E k \in kept, q \in Procs :
        /\ Ok(k, "google") /\ k.branch = "create"
        /\ Returned(q, "login") /\ call[q].after /\ call[q].email = k.email
        /\ call[q].password = "pw123456"
        /\ call[q].result = "WrongAuthMethod"
        /\ \E r \in tokens : TRUE

\* users' is users but for lastLoginAt.
OnlyLastLoginChanges ==
    /\ \A u \in users : \E v \in users' : v = [u EXCEPT !.lastLoginAt = v.lastLoginAt]
    /\ \A v \in users' : \E u \in users : v = [u EXCEPT !.lastLoginAt = v.lastLoginAt]

\* C16: a loginWithGoogle whose claims carry the email of an identity that has a
\* googleId goes straight to the session tail, and no step of the call changes
\* anything of an identity but lastLoginAt.
C16_LinkedUntouched ==
    [][\A p \in Procs :
          /\ (/\ call[p].pc = "idle"
              /\ call'[p].op = "google"
              /\ \E u \in users : u.email = call'[p].email /\ u.googleId # NULL)
                 => (call'[p].pc = "issue_insert" /\ users' = users)
          /\ (call[p].op = "google" /\ call[p].pc \in {"issue_insert", "issue_update"})
                 => OnlyLastLoginChanges]_vars

\* The claims of a second Google account were accepted for an identity linked to
\* the first; the identity still carries the first subject id and its password.
C16_Witness ==
    \E p \in Procs, u \in users :
        /\ Returned(p, "google") /\ call[p].result = "ok"
        /\ u.email = call[p].email
        /\ u.googleId # NULL /\ u.googleId # call[p].sub
        /\ u.password # NoPassword
        /\ u.lastLoginAt > 0

\* C17: loginWithGoogle fails with InvalidFederatedToken when the id token does not
\* verify and with FederatedClaimsIncomplete when the payload has no email; in both
\* cases at once, with no identity and no ledger record created or changed.
C17_GoogleRejections ==
    [][\A p \in Procs :
          (call[p].pc = "idle" /\ call'[p].op = "google") =>
              /\ call'[p].sub = NULL =>
                     (call'[p].pc = "done" /\ call'[p].result = "InvalidFederatedToken")
              /\ (call'[p].sub # NULL /\ call'[p].email = "") =>
                     (call'[p].pc = "done"
                      /\ call'[p].result = "FederatedClaimsIncomplete")
              /\ call'[p].pc = "done" => (users' = users /\ tokens' = tokens)]_vars

\* Both refusals have been given, the second with identities and records in place.
C17_Witness ==
    \E p \in Procs :
        /\ Returned(p, "google") /\ call[p].result = "FederatedClaimsIncomplete"
        /\ users # {} /\ tokens # {}

\* The operations that establish a session.
SessionOps == {"register", "login", "google", "refresh"}

\* The step in which the refresh record is stored: exactly one record is added,
\* for the identity of the call, with the fingerprint of the refresh token of the
\* pair, the label of the call or "Unknown Device", not revoked.
PersistStep(p) ==
    (call[p].pc = "issue_insert" /\ call'[p].pc = "issue_update") =>
        /\ call[p].op \in SessionOps
        /\ \E r \in tokens' :
              /\ r \notin tokens
              /\ tokens' = tokens \cup {r}
              /\ \E u \in call[p].user : r.userId = u.id
              /\ call'[p].pair # {}
              /\ \A t \in call'[p].pair : r.tokenHash = hashToken(t)
              /\ r.device = (IF call[p].device = "" THEN "Unknown Device"
                             ELSE call[p].device)
              /\ ~r.revoked

\* The step in which a session call returns a pair: it comes after the record was
\* stored, returns the pair of that record and stamps lastLoginAt.
PairStep(p) ==
    (/\ call[p].pc # "done" /\ call'[p].pc = "done"
     /\ call'[p].op \in SessionOps /\ call'[p].result = "ok") =>
        /\ call[p].pc = "issue_update"
        /\ call'[p].pair = call[p].pair
        /\ call'[p].pair # {}
        /\ \A c \in call[p].user :
              \E u \in users' : u.id = c.id /\ u.lastLoginAt = now

\* C19: every successful register, login, loginWithGoogle or refresh stores exactly
\* one new record (the identity's id, the fingerprint of the returned refresh token,
\* the label or "Unknown Device", not revoked) and stamps lastLoginAt; no pair is
\* returned without the record of its refresh token having been stored by the call.
C19_IssuancePersists ==
    [][\A p \in Procs : PersistStep(p) /\ PairStep(p)]_vars

\* A loginWithGoogle without a label has stored its record as "Unknown Device".
C19_Witness ==
    \E p \in Procs, r \in tokens :
        /\ call[p].op = "google" /\ call[p].pc = "issue_update"
        /\ call[p].device = ""
        /\ r.device = "Unknown Device"
        /\ \A t \in call[p].pair : r.tokenHash = hashToken(t)

\* C20: a session call whose insert of the refresh record fails returns a failure
\* and no pair: it leaves the session tail with nothing stored and nothing handed
\* to the caller.
C20_NoPairWithoutRecord ==
    [][\A p \in Procs :
          (call[p].pc = "issue_insert" /\ call'[p].pc = "done") =>
              /\ call'[p].result # "ok"
              /\ call'[p].pair = {}
              /\ issued' = issued
              /\ tokens' = tokens]_vars

\* A register whose insert of the record failed: the call returned the failure and
\* no pair, and the ledger is empty.
C20_Witness ==
    \E p \in Procs :
        /\ Returned(p, "register") /\ call[p].result = "DbError"
        /\ call[p].pair = {}
        /\ tokens = {} /\ issued = {}

\* The record a refresh call has consumed.
Consumed(p) == CHOOSE r \in call[p].stored : TRUE

\* C21: a refresh that goes on to issue does so for the identity whose id is the
\* userId of the consumed record, as the store has it now, and the record it stores
\* carries that userId and the device label of the consumed record.
C21_RefreshByRecord ==
    [][\A p \in Procs :
          /\ (call[p].pc = "refresh_user" /\ call'[p].pc = "issue_insert") =>
                 /\ call'[p].user = {u \in users : u.id = Consumed(p).userId}
                 /\ call'[p].device = Consumed(p).device
          /\ (call[p].op = "refresh" /\ call[p].pc = "issue_insert"
              /\ call'[p].pc = "issue_update") =>
                 \E r \in tokens' \ tokens :
                     /\ r.userId = Consumed(p).userId
                     /\ r.device = Consumed(p).device
                     /\ \A t \in call'[p].pair :
                           /\ r.tokenHash = hashToken(t)
                           /\ \E u \in users : u.id = r.userId /\ t.id = u.id
                                                /\ t.email = u.email]_vars

\* A refresh has issued for an identity whose email is no longer the one in the
\* claims of the presented token, on a record labelled "Unknown Device".
C21_Witness ==
    \E p \in Procs, r \in tokens :
        /\ call[p].op = "refresh" /\ call[p].pc = "issue_update"
        /\ r.device = "Unknown Device" /\ Consumed(p).device = "Unknown Device"
        /\ \A t \in call[p].pair :
              r.tokenHash = hashToken(t) /\ t.email # call[p].token.email

\* The three situations of a signed, unexpired token without a usable record.
NeverWasStored(token) == token \notin issued /\ RecordsOf(token) = {}

NoLongerStored(token) == token \in issued /\ RecordsOf(token) = {}

StoredRevoked(token) ==
    RecordsOf(token) # {} /\ \A r \in RecordsOf(token) : r.revoked

\* C22: a refresh call that presents a correctly signed, unexpired token in any of
\* the three situations (never stored; its record consumed or logged out; its
\* records flagged revoked) returns at once with RefreshReuseOrInvalid and leaves
\* the ledger and the identities as they were.
C22_UnusableAlike ==
    [][\A p \in Procs :
          (/\ call[p].pc = "idle" /\ call'[p].op = "refresh"
           /\ verifyToken(call'[p].token) = "decoded"
           /\ \/ NeverWasStored(call'[p].token)
              \/ NoLongerStored(call'[p].token)
              \/ StoredRevoked(call'[p].token))
          => /\ call'[p].pc = "done"
             /\ call'[p].result = "RefreshReuseOrInvalid"
             /\ call'[p].stored = {} /\ call'[p].pair = {}
             /\ tokens' = tokens /\ users' = users]_vars

\* A refresh was turned away with RefreshReuseOrInvalid while a revoked record of
\* its token is in the ledger.
C22_Witness ==
    \E p \in Procs :
        /\ Returned(p, "refresh") /\ call[p].result = "RefreshReuseOrInvalid"
        /\ verifyToken(call[p].token) = "decoded"
        /\ StoredRevoked(call[p].token)

\* The other two situations, met by a call that was turned away the same way.
C22_NeverStoredMet ==
    \E p \in Procs :
        /\ Returned(p, "refresh") /\ call[p].result = "RefreshReuseOrInvalid"
        /\ NeverWasStored(call[p].token)

C22_NoLongerStoredMet ==
    \E p \in Procs :
        /\ Returned(p, "refresh") /\ call[p].result = "RefreshReuseOrInvalid"
        /\ verifyToken(call[p].token) = "decoded"
        /\ NoLongerStored(call[p].token)

\* A record that a refresh presenting its token now would accept.
Usable(r) ==
    /\ ~r.revoked /\ now <= r.expiresAt
    /\ \E t \in issued : r.tokenHash = hashToken(t) /\ verifyToken(t) = "decoded"

\* C23: no step of a login or loginWithGoogle call removes or changes a record
\* that is in the ledger: the records of earlier sessions of the identity stay as
\* they are while the call stores its own.
C23_LoginKeepsRecords ==
    [][\A p \in Procs :
          (/\ call'[p] # call[p]
           /\ call'[p].op \in {"login", "google"})
          => tokens \subseteq tokens']_vars

\* A login has returned its pair while an earlier, different token of the same
\* identity still has its usable record.
C23_Witness ==
    \E p \in Procs, r1 \in tokens, r2 \in tokens :
        /\ Returned(p, "login") /\ call[p].result = "ok"
        /\ \A t \in call[p].pair : r2.tokenHash = hashToken(t)
        /\ r1.userId = r2.userId /\ r1.tokenHash # r2.tokenHash
        /\ r1.id < r2.id
        /\ Usable(r1)

\* The same after a loginWithGoogle.
C23_FederatedMet ==
    \E p \in Procs, r1 \in tokens, r2 \in tokens :
        /\ Returned(p, "google") /\ call[p].result = "ok"
        /\ \A t \in call[p].pair : r2.tokenHash = hashToken(t)
        /\ r1.userId = r2.userId /\ r1.tokenHash # r2.tokenHash
        /\ r1.id < r2.id
        /\ Usable(r1)

\* A refresh call that returned from its first step, at the clock value it began.
RefreshTurnedAway(p) == Returned(p, "refresh") /\ call[p].stored = {}

\* C24: a refresh whose token does not verify (bad signature, or signed expiry
\* passed) fails with a typed failure that is answered as a 401.
C24_BadTokenTyped ==
    \A p \in Procs :
        (/\ RefreshTurnedAway(p)
         /\ call[p].token # EmptyToken
         /\ verifyToken(call[p].token) # "decoded")
        => /\ ErrorOf(call[p].result).class = "AppError"
           /\ errorHandler(ErrorOf(call[p].result)).status = 401

\* The error a handled throw was given and the response it got.
Thrown(p) == CHOOSE err \in call[p].stored : TRUE

Answer(p) == CHOOSE res \in call[p].pair : TRUE

Handled(p) == Returned(p, "errorHandler")

\* C28: the response to an error is fixed by the first rule that matches: a
\* ZodError gets 400; an AppError its own statusCode and message; otherwise an
\* error with a code property gets 409 for 23505, 400 for 23503 and for 23502,
\* 500 for any other code; every other error gets 500.
C28_FirstMatchingRule ==
    \A p \in Procs :
        Handled(p) =>
            LET err == Thrown(p)
                res == Answer(p)
                typed == err.class \in {"ZodError", "AppError"}
            IN /\ err.class = "ZodError" => res.status = 400
               /\ err.class = "AppError" =>
                      res.status = err.statusCode /\ res.message = err.message
               /\ (~typed /\ err.code = {"23505"}) => res.status = 409
               /\ (~typed /\ err.code = {"23503"}) => res.status = 400
               /\ (~typed /\ err.code = {"23502"}) => res.status = 400
               /\ (~typed /\ err.code \notin {{}, {"23505"}, {"23503"}, {"23502"}})
                      => res.status = 500
               /\ (~typed /\ err.code = {}) => res.status = 500

\* An AppError thrown with 401 that also carries the code 23505 was answered 401.
C28_Witness ==
    \E p \in Procs :
        /\ Handled(p)
        /\ Thrown(p).class = "AppError" /\ Thrown(p).code = {"23505"}
        /\ Thrown(p).statusCode = 401
        /\ Answer(p).status = 401

\* C25: a refresh that presents an access token is turned away by the signature
\* check, before the ledger is read, and returns no pair; and no record of the
\* ledger carries the fingerprint of an access token.
C25_AccessTokenRefused ==
    /\ \A p \in Procs :
          (Returned(p, "refresh") /\ call[p].token.sig = "ACCESS_SECRET")
          => /\ call[p].result = "JsonWebTokenError"
             /\ call[p].stored = {} /\ call[p].pair = {}
    /\ \A r \in tokens, t \in issued : r.tokenHash # hashToken(AccessOf(t))

\* A refresh was refused the access token of a pair, inside that access token's
\* lifetime, while the refresh token of the same pair has its usable record.
C25_Witness ==
    \E p \in Procs, t \in issued, r \in tokens :
        /\ Returned(p, "refresh") /\ call[p].token = AccessOf(t)
        /\ call[p].result # "ok"
        /\ NowSec < AccessOf(t).exp
        /\ r.tokenHash = hashToken(t) /\ Usable(r)

\* C26: a refresh that has consumed a record and finds no identity with the
\* record's userId ends in an internal failure, answered with status 500, and not
\* in the client failure NotFound.
C26_MissingIdentityInternal ==
    [][\A p \in Procs :
          (/\ call[p].pc = "refresh_user" /\ call'[p].pc = "done"
           /\ UsersById(Consumed(p).userId) = {})
          => /\ call'[p].result # "NotFound"
             /\ errorHandler(ErrorOf(call'[p].result)).status = 500]_vars

\* Every record of the ledger belongs to an existing identity.
RecordsOwned == \A r \in tokens : \E u \in users : u.id = r.userId

\* A userService.delete call removes an identity.
DeleteStep(p) ==
    /\ call[p].pc = "idle"
    /\ call'[p].op = "userDelete" /\ call'[p].result = "ok"

\* A refresh call begins with a token issued to an identity that no longer exists.
BeginsOrphaned(p) ==
    /\ call[p].pc = "idle" /\ call'[p].op = "refresh"
    /\ call'[p].token \in issued
    /\ UsersById(call'[p].token.id) = {}

\* C30 as stated: every record belongs to an existing identity, a deletion removes
\* the identity with all its records in one step, and every refresh that begins
\* afterwards with a token of that identity fails with RefreshReuseOrInvalid.
C30_DeletedIdentityRefused ==
    /\ [](RecordsOwned)
    /\ [][\A p \in Procs :
            /\ DeleteStep(p) =>
                   \A u \in call'[p].user :
                       /\ users' = users \ {u}
                       /\ tokens' = {r \in tokens : r.userId # u.id}
            /\ BeginsOrphaned(p) =>
                   /\ call'[p].pc = "done"
                   /\ call'[p].result = "RefreshReuseOrInvalid"]_vars

\* C30, for tokens that still verify: every record belongs to an existing identity,
\* a deletion removes the identity with all its records in one step, and every
\* refresh that begins afterwards with a token of that identity whose signed expiry
\* has not passed fails with RefreshReuseOrInvalid and changes nothing.
C30_DeletedIdentityRefusedUnexpired ==
    /\ [](RecordsOwned)
    /\ [][\A p \in Procs :
            /\ DeleteStep(p) =>
                   \A u \in call'[p].user :
                       /\ users' = users \ {u}
                       /\ tokens' = {r \in tokens : r.userId # u.id}
            /\ (BeginsOrphaned(p) /\ verifyToken(call'[p].token) = "decoded") =>
                   /\ call'[p].pc = "done"
                   /\ call'[p].result = "RefreshReuseOrInvalid"
                   /\ tokens' = tokens /\ users' = users]_vars

\* A refresh with an unexpired token of a deleted identity was turned away with
\* RefreshReuseOrInvalid.
C30_Witness ==
    \E p \in Procs :
        /\ RefreshTurnedAway(p) /\ call[p].result = "RefreshReuseOrInvalid"
        /\ call[p].token \in issued
        /\ verifyToken(call[p].token) = "decoded"
        /\ UsersById(call[p].token.id) = {}

\* A register that was in flight when its identity was deleted was refused the
\* insert of its record by the foreign key.
C30_InFlightMet ==
    \E p \in Procs :
        /\ Returned(p, "register") /\ call[p].result = "DbError23503"
        /\ tokens = {}

\* C27: a logout request whose body carries the refresh token of a returned pair
\* ends with a success response and leaves no record with that token's
\* fingerprint.
C27_LogoutRequestDeletes ==
    \A p \in Procs :
        Returned(p, "logoutRequest") =>
            /\ call[p].result = "ok"
            /\ RecordsOf(call[p].token) = {}

\* C29: once a signal has been received the process exits; it exits with 0 only
\* when the HTTP server has closed and the pool was then closed without error, and
\* with 1 when closing the pool failed or the timer fired first, also when a second
\* signal has come in the meantime.
C29_ShutdownExits ==
    /\ [](server.exit = {0} => (server.closed /\ server.pool = "ended"))
    /\ [](server.pool # "open" => server.closed)
    /\ [](server.cause \in {"poolError", "forced"} => server.exit = {1})
    /\ Signalled ~> (server.exit # {})

\* A second signal came while the first shutdown waited for a connection to end,
\* and the process exited with 1 when the server closed.
C29_Witness ==
    /\ Len(server.signals) = MaxShutdowns
    /\ \A i \in 1..Len(server.signals) : server.signals[i] \in {"SIGTERM", "SIGINT"}
    /\ server.closed /\ server.cause = "poolError"
    /\ server.exit = {1}

\* The clean exit, the failed pool close and the forced exit after one signal.
C29_CleanMet ==
    Signalled /\ Len(server.signals) = 1 /\ server.exit = {0} /\ server.cause = "completed"

C29_PoolErrorMet ==
    Signalled /\ Len(server.signals) = 1 /\ server.exit = {1} /\ server.pool = "failed"

C29_ForcedMet ==
    Signalled /\ Len(server.signals) = 1 /\ server.exit = {1} /\ server.cause = "forced"
       /\ ~server.closed

\* The records of the ledger that belong to an identity.
RecordsOfUser(id) == {r \in tokens : r.userId = id}

\* The register calls that have established a session for an identity: the one
\* that inserted the identity, where register is the only establishing call.
Registered(id) == {u \in users : u.id = id /\ u.authProvider = "local"}

\* C31: an identity never has more records than sessions were established for
\* it, whatever the interleaving of refresh calls.
C31_RefreshKeepsCount ==
    \A id \in 1..MaxUsers :
        Cardinality(RecordsOfUser(id)) <= Cardinality(Registered(id))

\* C32: once a logout of a live token has returned, a refresh of that token that
\* was in flight when the logout ran returns no pair either (a refresh that begins
\* after the logout returned is the case of C8).
C32_LoggedOutNeverContinued ==
    \A k \in kept, q \in Procs :
        (/\ Ok(k, "logout") /\ k.stored # {}
         /\ Returned(q, "refresh") /\ call[q].token = k.token
         /\ ~call[q].after)
        => /\ call[q].result # "ok"
           /\ call[q].pair = {}

\* C33: a googleId that has been set on an identity is never replaced by another,
\* whatever the interleaving of loginWithGoogle calls.
C33_SubjectIdKept ==
    [][\A u \in users, v \in users' :
          (u.id = v.id /\ u.googleId # NULL) => v.googleId = u.googleId]_vars

\* C34: a register call that failed for another reason than AlreadyExists has
\* left no identity with its email behind.
C34_FailedRegisterLeavesNothing ==
    \A p \in Procs :
        (Returned(p, "register") /\ call[p].result \notin {"ok", "AlreadyExists"})
        => UsersByEmail(call[p].email) = {}

\* The refresh token of a record was returned to a caller, or the call that
\* inserted the record has not returned yet.
Accounted(r) ==
    \/ \E t \in issued : r.tokenHash = hashToken(t)
    \/ \E p \in Procs :
          /\ call[p].pc = "issue_update"
          /\ \E t \in call[p].pair : r.tokenHash = hashToken(t)

\* C35: every record of the ledger belongs to a refresh token that was returned to
\* some caller: a session call that returned a failure has added no record.
C35_RecordsWereReturned == \A r \in tokens : Accounted(r)

C37_NeverRevoked ==
    /\ [](\A r \in tokens : ~r.revoked)
    /\ [][\A r \in tokens, n \in tokens' : r.id = n.id => r = n]_vars

\* A refresh has consumed a record by deleting it and stored its replacement: the
\* consumed record is gone and the replacement is not revoked.
C37_Witness ==
    \E p \in Procs, r \in tokens :
        /\ RefreshOk(p)
        /\ call[p].stored # {} /\ call[p].stored \cap tokens = {}
        /\ \A t \in call[p].pair : r.tokenHash = hashToken(t)
        /\ ~r.revoked

====
